---- MODULE Spec2Model ----
(***************************************************************************)
(* Verification model of origami's widget core (src/src/widgets/framework.ts): *)
(*   - the signal / effect / derived dependency graph of ReactiveWidget,   *)
(*   - the StateMutable transition engine (send, applyTransition,          *)
(*     autoStep, scheduleRender, render),                                  *)
(*   - StateMutable.findWidget, the view resolver.                         *)
(*   - BuildContext (provide, read, dispose),                              *)
(* and of PubSub (src/src/pubsub/pubsub.ts) and OrigamiBloc                *)
(* (src/src/lib/bloc/bloc.ts).                                             *)
(* JavaScript runs every task to completion, so one action is one task     *)
(* (a host call, or one microtask); calls made inside a task are operators *)
(* over a record of the object's fields.                                   *)
(***************************************************************************)
EXTENDS Integers, Sequences, FiniteSets, TLC

VARIABLES
    \* ---- ReactiveWidget (framework.ts 487-574)
    value,            \* signal -> the closure variable `value`
    cachedValue,      \* derived -> the closure variable `cachedValue`
    subscriptions,    \* cell -> its Set `subscriptions`, in insertion order
    isActive,         \* effect -> the closure variable `isActive`
    subscriber,       \* the module-level `subscriber`
    burst,            \* history: the writes of the current synchronous turn
    runs,             \* history: effect -> executions of its body in this turn
    seen,             \* history: effect -> what each of those executions read
    deps,             \* history: effect -> the cells its latest execution read
    outstanding,      \* history: effect -> cleanup functions its executions of this
                      \* turn returned and nobody has invoked
    uncaught,         \* an exception is propagating; after a host call: it reached the host
    overflowed,       \* history: the call stack was exhausted during this turn
    turn,             \* "burst" while the host's turn runs, "done" once it ended
    \* ---- StateMutable (framework.ts 595-777)
    state,
    rendering,            \* _rendering
    pendingTransitions,   \* _pendingTransitions
    scheduledRender,      \* _scheduledRender
    microtasks,           \* the microtask queue: scheduled renders
    promises,             \* deferred handler results that have not settled
    warned,               \* an autoStep loop has reported "max steps" since the last host call
    task,                 \* history: what the last task did
    rendered,             \* history: the state the last render() was called in
    entryEvals,           \* history: how often autoStep has called the handler of the
                          \* current state since the state was assigned
    \* ---- findWidget on its own
    widgets,          \* the view table: its keys in key order
    viewState,        \* the state that is resolved
    resolved,         \* the key whose factory findWidget called, or Null
    \* ---- BuildContext
    providers,        \* context -> the service types its _providers map holds
    disposed,         \* context -> _disposed
    children,         \* context -> _children, in order
    lastCall,         \* history: the last call made on a context and its outcome
    \* ---- PubSub (pubsub.ts)
    subscribers,      \* key -> the handler Set of the Map entry, in insertion order
    present,          \* the keys the subscribers Map has
    deliveries,       \* the microtask queue: handler calls that publish queued
    nextOnce,         \* history: the number the next once() call gets
    onceRuns,         \* history: once() call -> how often its handler was invoked
    lastDelivery,     \* history: the last handler call and whether the handler was
                      \* still subscribed when it was made
    \* ---- OrigamiBloc (bloc.ts)
    listeners,        \* state -> the callbacks subscribed to it, in order
    blocLast          \* history: what the last send() did

reactiveVars ==
    <<value, cachedValue, subscriptions, isActive, subscriber, burst, runs, seen, deps,
      outstanding, uncaught, overflowed, turn>>
machineVars ==
    <<state, rendering, pendingTransitions, scheduledRender, microtasks, promises, warned, task,
      rendered, entryEvals>>
viewVars == <<widgets, viewState, resolved>>
contextVars == <<providers, disposed, children, lastCall>>
pubsubVars == <<subscribers, present, deliveries, nextOnce, onceRuns, lastDelivery>>
blocVars == <<listeners, blocLast>>
vars == <<reactiveVars, machineVars, viewVars, contextVars, pubsubVars, blocVars>>

\* Text is held as a sequence of one-character strings, so that includes,
\* split, startsWith, endsWith and slice can be computed as the code does.
\* null and undefined are one-element tuples, unlike every text.
Null == <<"null">>
Undefined == <<"undefined">>
\* `subscriber = null`: effects are named by strings.
NoSubscriber == "none"

\* Whether x is an element of the sequence s.
InSeq(x, s) == \E i \in 1..Len(s) : s[i] = x

\* Set.add on an insertion-ordered Set held as a sequence.
SetAdd(s, x) == IF InSeq(x, s) THEN s ELSE Append(s, x)

\* Set.delete on an insertion-ordered Set held as a sequence.
SetDelete(s, x) == SelectSeq(s, LAMBDA y : y # x)

(***************************************************************************)
(* ReactiveWidget: signal, effect, derived                                 *)
(***************************************************************************)

\* Signal values are 0..MaxVal; a turn makes at most MaxBurst writes; the call
\* stack holds at most MaxDepth nested effect executions.
MaxVal == 2
MaxBurst == 2
MaxDepth == 4

Val == 0..MaxVal

\* The widget under study, built in init() as the README's examples are:
\*   a = signal(0); b = signal(0);
\*   d1 = derived(() => a.value % 2); d2 = derived(() => a.value * 2 ...);
\*   effect(() => use(a.value, b.value));     "eAB"
\*   effect(() => use(d1.value, d2.value));   "eD"
\*   effect(() => use(b.value));              "eB"
\*   effect(() => { if (a.value === 0) use(b.value); use(x.value); });   "eC"
\*   effect(() => { const v = a.value; x.value = v; use(b.value); });    "eW"
\*   y = signal(0);
\*   effect(() => { if (y.value > 0) y.value = y.value + 1; });          "eY"
\* x is a signal that another ReactiveWidget created: it is not in this
\* widget's _signals. The effects eAB and eB return a cleanup function, as the
\* README's effects do.
Signals == {"a", "b", "x", "y"}
OwnSignals == {"a", "b", "y"}
\* The signals the host writes while the widget's graph is studied; y is
\* written where the self-writing effect is.
HostSignals == {"a", "b"}
Deriveds == {"d1", "d2"}
Cells == Signals \cup Deriveds
OwnCells == OwnSignals \cup Deriveds
PlainEffects == {"eAB", "eD", "eB", "eC", "eW", "eY"}
Effects == Deriveds \cup PlainEffects
ReturnsCleanup == {"eAB", "eB"}
\* The effect whose disposer the host kept.
Disposers == {"eC"}

\* The cells an effect's body reads, in the order it reads them.
EffectReads(e) ==
    CASE e = "eAB" -> <<"a", "b">>
      [] e = "eD" -> <<"d1", "d2">>
      [] e = "eB" -> <<"b">>
      [] e = "d1" -> <<"a">>
      [] e = "d2" -> <<"a">>
      [] e = "eC" -> <<"a", "b", "x">>
      [] e = "eW" -> <<"a", "b">>
      [] e = "eY" -> <<"y">>

\* The function given to derived(): d1 is the parity of a, d2 is a doubled
\* (kept within the value range).
DerivedFn(d, v) == IF d = "d1" THEN v % 2 ELSE (2 * v) % (MaxVal + 1)

\* The current value held by a cell.
CellValue(g, c) == IF c \in Signals THEN g.value[c] ELSE g.cachedValue[c]

\* A plausible slip: one subscription set shared by all the cells of the
\* widget instead of one per cell.
getValueSharedSet(g, c) ==
    IF g.subscriber # NoSubscriber
    THEN [g EXCEPT !.subscriptions = [k \in Cells |-> IF k \in OwnCells
                                                      THEN SetAdd(g.subscriptions[k], g.subscriber)
                                                      ELSE g.subscriptions[k]]]
    ELSE g

\* `get value()`: registers the active subscriber, then returns the value
\* (the value is CellValue; this is the getter's effect on the graph).
getValue(g, c) ==
    IF g.subscriber # NoSubscriber
    THEN [g EXCEPT !.subscriptions[c] = SetAdd(@, g.subscriber)]
    ELSE g

RECURSIVE readAll(_, _, _)
\* An effect body reading the cells rs[i..] in order.
readAll(g, rs, i) ==
    IF i > Len(rs) THEN g ELSE readAll(getValue(g, rs[i]), rs, i + 1)

\* What a body that reads the cells rs observes.
Observed(g, rs) == [i \in 1..Len(rs) |-> CellValue(g, rs[i])]

\* The steps of an effect's body in the graph g: reads and writes of cells,
\* in order. eC reads b only while a is 0; eW stores a's value in x between
\* its two reads; eB throws after its read when b is 1.
Read(c) == [op |-> "read", cell |-> c]
Store(c, v) == [op |-> "write", cell |-> c, v |-> v]
Throw == [op |-> "throw", cell |-> "none"]
Body(g, e) ==
    CASE e = "eB" -> IF g.value["b"] = 1 THEN <<Read("b"), Throw>> ELSE <<Read("b")>>
      [] e = "eC" -> IF g.value["a"] = 0 THEN <<Read("a"), Read("b"), Read("x")>>
                     ELSE <<Read("a"), Read("x")>>
      [] e = "eW" -> <<Read("a"), Store("x", g.value["a"]), Read("b")>>
      [] e = "eY" -> IF g.value["y"] > 0 THEN <<Read("y"), Store("y", g.value["y"] + 1)>>
                     ELSE <<Read("y")>>
      [] OTHER -> [i \in 1..Len(EffectReads(e)) |-> Read(EffectReads(e)[i])]

\* The cells a run of e's body in g reads, in order.
Reads(g, e) ==
    LET rs == SelectSeq(Body(g, e), LAMBDA st : st.op = "read")
    IN  [i \in 1..Len(rs) |-> rs[i].cell]

RECURSIVE wrapper(_, _)
RECURSIVE notify(_, _, _)
RECURSIVE runBody(_, _, _)
RECURSIVE setValue(_, _, _)

\* A plausible slip: the catch blocks pass the exception on.
caughtRethrows(g) == g

\* catch (err) { console.error(...) }: the exception ends here.
caught(g) == [g EXCEPT !.uncaught = FALSE]

\* subscriptions.forEach(fn => { try { fn() } catch ... }): Set.forEach also
\* visits what is added while it iterates; an exception that leaves the
\* callback would end the iteration.
notify(g, c, i) ==
    IF i > Len(g.subscriptions[c]) THEN g
    ELSE LET g1 == wrapper(g, g.subscriptions[c][i])
             g2 == IF g1.uncaught THEN caught(g1) ELSE g1
         IN  IF g2.uncaught THEN g2 ELSE notify(g2, c, i + 1)

\* A plausible slip: the recomputed value is stored and announced without
\* being compared with the cached one.
derivedBodyAlwaysNotifies(g, d) ==
    LET g1 == readAll(g, EffectReads(d), 1)
        newValue == DerivedFn(d, CellValue(g1, EffectReads(d)[1]))
    IN  notify([g1 EXCEPT !.cachedValue[d] = newValue], d, 1)

\* The body of the effect that derived() creates: recompute, and on a
\* different value store it and run the derived signal's subscribers.
derivedBody(g, d) ==
    LET g1 == readAll(g, EffectReads(d), 1)
        newValue == DerivedFn(d, CellValue(g1, EffectReads(d)[1]))
    IN  IF newValue # g1.cachedValue[d]
        THEN notify([g1 EXCEPT !.cachedValue[d] = newValue], d, 1)
        ELSE g1

\* `set value(updated)` of a signal: store, then run every subscriber now.
setValue(g, s, updated) == notify([g EXCEPT !.value[s] = updated], s, 1)

\* The steps ops[i..] of an effect's body: a read goes through the getter, a
\* write through the setter.
runBody(g, ops, i) ==
    IF i > Len(ops) \/ g.uncaught THEN g
    ELSE IF ops[i].op = "read" THEN runBody(getValue(g, ops[i].cell), ops, i + 1)
    ELSE IF ops[i].op = "throw" THEN [g EXCEPT !.uncaught = TRUE]
    ELSE runBody(setValue(g, ops[i].cell, ops[i].v), ops, i + 1)

\* The body of a plain effect.
effectBody(g, e) == runBody(g, Body(g, e), 1)

\* What a run of wrapper leaves in the history: one more execution, what it
\* read, and the cleanup function fn returned (the wrapper drops fn's result).
ranOnce(g, e) ==
    [g EXCEPT !.runs[e] = @ + 1,
              !.seen[e] = Append(@, Observed(g, Reads(g, e))),
              !.deps[e] = {Reads(g, e)[i] : i \in 1..Len(Reads(g, e))},
              !.outstanding[e] = IF e \in ReturnsCleanup /\ ~InSeq(Throw, Body(g, e))
                                 THEN @ + 1 ELSE @]

\* A call made with MaxDepth effect executions on the stack: RangeError
\* (maximum call stack size exceeded), thrown to the caller.
stackOverflow(g) == [g EXCEPT !.uncaught = TRUE, !.overflowed = TRUE]

\* A plausible slip: the wrapper does not look at isActive.
wrapperAlwaysRuns(g, e) ==
    IF g.depth >= MaxDepth THEN stackOverflow(g)
    ELSE LET g1 == [ranOnce(g, e) EXCEPT !.subscriber = e, !.depth = @ + 1]
             g2 == IF e \in Deriveds THEN derivedBody(g1, e) ELSE effectBody(g1, e)
             g3 == IF g2.uncaught THEN caught(g2) ELSE g2
         IN  [g3 EXCEPT !.subscriber = NoSubscriber, !.depth = @ - 1]

\* effect()'s `wrapper`: inert when disposed; else subscriber = wrapper, run
\* fn, catch what it throws, finally subscriber = null.
wrapper(g, e) ==
    IF ~g.isActive[e] THEN g
    ELSE IF g.depth >= MaxDepth THEN stackOverflow(g)
    ELSE LET g1 == [ranOnce(g, e) EXCEPT !.subscriber = e, !.depth = @ + 1]
             g2 == IF e \in Deriveds THEN derivedBody(g1, e) ELSE effectBody(g1, e)
             g3 == IF g2.uncaught THEN caught(g2) ELSE g2
         IN  [g3 EXCEPT !.subscriber = NoSubscriber, !.depth = @ - 1]

\* A plausible slip: the derived signal's setter stores like a signal's.
setDerivedStores(g, d, updated) == notify([g EXCEPT !.cachedValue[d] = updated], d, 1)

\* `set value(_)` of a derived signal: a warning, nothing else.
setDerived(g, d, updated) == g

\* The cleanup function effect() returns: isActive = false, and the wrapper
\* leaves the subscriptions of every signal in this widget's _signals.
cleanup(g, e) ==
    [g EXCEPT !.isActive[e] = FALSE,
              !.subscriptions = [c \in Cells |-> IF c \in OwnCells
                                                 THEN SetDelete(g.subscriptions[c], e)
                                                 ELSE g.subscriptions[c]]]

RECURSIVE cleanupAll(_, _)
\* _cleanupFns.forEach(cleanup => cleanup()) over the effects es.
cleanupAll(g, es) ==
    IF es = {} THEN g
    ELSE LET e == CHOOSE f \in es : TRUE IN cleanupAll(cleanup(g, e), es \ {e})

\* dispose(): every registered cleanup, then every signal of _signals drops
\* its subscriptions.
dispose(g) ==
    LET g1 == cleanupAll(g, {e \in Effects : g.isActive[e]})
    IN  [g1 EXCEPT !.subscriptions = [c \in Cells |-> IF c \in OwnCells THEN <<>>
                                                       ELSE g1.subscriptions[c]]]

\* The graph as a record of the reactive variables.
Graph ==
    [value |-> value, cachedValue |-> cachedValue, subscriptions |-> subscriptions,
     isActive |-> isActive, subscriber |-> subscriber, runs |-> runs, seen |-> seen,
     deps |-> deps, outstanding |-> outstanding, uncaught |-> uncaught,
     overflowed |-> overflowed, depth |-> 0]

NoRuns == [e \in Effects |-> 0]
NoSeen == [e \in Effects |-> <<>>]
NoDeps == [e \in Effects |-> {}]

\* The graph before init(): signals hold 0, derived() has evaluated fn once
\* (line 543) with no subscriber, nothing is subscribed.
EmptyGraph ==
    [value |-> [s \in Signals |-> 0],
     cachedValue |-> [d \in Deriveds |-> DerivedFn(d, 0)],
     subscriptions |-> [c \in Cells |-> <<>>],
     isActive |-> [e \in Effects |-> TRUE],
     subscriber |-> NoSubscriber, runs |-> NoRuns, seen |-> NoSeen,
     deps |-> NoDeps, outstanding |-> NoRuns, uncaught |-> FALSE,
     overflowed |-> FALSE, depth |-> 0]

\* init(): each effect() call runs its wrapper once, in creation order.
Constructed ==
    LET g == wrapper(wrapper(wrapper(wrapper(wrapper(EmptyGraph, "d1"), "d2"), "eAB"), "eD"), "eB")
    IN  wrapper(wrapper(wrapper(g, "eC"), "eW"), "eY")

SetGraph(g) ==
    /\ value' = g.value
    /\ cachedValue' = g.cachedValue
    /\ subscriptions' = g.subscriptions
    /\ isActive' = g.isActive
    /\ subscriber' = g.subscriber
    /\ runs' = g.runs
    /\ seen' = g.seen
    /\ deps' = g.deps
    /\ outstanding' = g.outstanding
    /\ uncaught' = g.uncaught
    /\ overflowed' = g.overflowed

ReactiveInit ==
    /\ value = Constructed.value
    /\ cachedValue = Constructed.cachedValue
    /\ subscriptions = Constructed.subscriptions
    /\ isActive = Constructed.isActive
    /\ subscriber = Constructed.subscriber
    /\ runs = NoRuns
    /\ seen = NoSeen
    /\ deps = Constructed.deps
    /\ outstanding = NoRuns
    /\ uncaught = FALSE
    /\ overflowed = FALSE
    /\ burst = <<>>
    /\ turn = "done"

\* The graph at the start of the write: a write that opens a new turn starts
\* with an empty history.
TurnGraph ==
    IF turn = "done"
    THEN [Graph EXCEPT !.runs = NoRuns, !.seen = NoSeen, !.outstanding = NoRuns,
                       !.overflowed = FALSE]
    ELSE Graph
TurnBurst == IF turn = "done" THEN <<>> ELSE burst

\* The host assigns s.value = v inside its current synchronous turn.
Write(s, v) ==
    /\ Len(TurnBurst) < MaxBurst
    /\ SetGraph(setValue(TurnGraph, s, v))
    /\ burst' = Append(TurnBurst, [sig |-> s, old |-> value[s], new |-> v])
    /\ turn' = "burst"

\* The host calls the disposer that effect() returned for e.
DisposeEffect(e) ==
    /\ e \in PlainEffects
    /\ isActive[e]
    /\ SetGraph(cleanup(TurnGraph, e))
    /\ burst' = TurnBurst
    /\ turn' = "burst"

\* The host assigns d.value = v to a derived signal.
WriteDerived(d, v) ==
    /\ Len(TurnBurst) < MaxBurst
    /\ SetGraph(setDerived(TurnGraph, d, v))
    /\ burst' = Append(TurnBurst, [sig |-> d, old |-> cachedValue[d], new |-> v])
    /\ turn' = "burst"

\* The host disposes the widget: ReactiveWidget.dispose().
DisposeWidget ==
    /\ \E e \in Effects : isActive[e]
    /\ SetGraph(dispose(TurnGraph))
    /\ burst' = TurnBurst
    /\ turn' = "burst"

\* The host's turn ends and the microtasks of the turn have run (the signal
\* setter queues none).
EndTurn ==
    /\ turn = "burst"
    /\ turn' = "done"
    /\ UNCHANGED <<value, cachedValue, subscriptions, isActive, subscriber, burst, runs, seen,
                   deps, outstanding, uncaught, overflowed>>

(***************************************************************************)
(* StateMutable.findWidget: the view resolver                              *)
(***************************************************************************)

\* A view table holds at most MaxKeys keys.
MaxKeys == 3

loading == <<"l", "o", "a", "d", "i", "n", "g">>
saving == <<"s", "a", "v", "i", "n", "g">>
idle == <<"i", "d", "l", "e">>
lost == <<"l", "o", "s", "t">>
ready == <<"r", "e", "a", "d", "y">>
star == <<"*">>
loadPrefix == <<"l", "o", "a", "d", ".", "*">>
loPrefix == <<"l", "o", ".", "*">>
loadingOrSaving == loading \o <<"|">> \o saving
idleOrLost == idle \o <<" ", "|", " ">> \o lost
regexLoad == <<"/", "^", "l", "o", "a", "d", "/">>
regexIng == <<"/", "i", "n", "g", "$", "/">>
regexBad == <<"/", "(", "/">>

\* The keys the checked view tables are built from, and the states resolved.
PatternKeys ==
    {loading, idle, star, loadPrefix, loPrefix, loadingOrSaving, idleOrLost,
     regexLoad, regexIng, regexBad}
ViewStates == {loading, saving, idle, lost, ready}

\* String.prototype.includes for one character.
includes(s, ch) == \E i \in 1..Len(s) : s[i] = ch

\* String.prototype.startsWith.
startsWith(s, p) == Len(p) <= Len(s) /\ SubSeq(s, 1, Len(p)) = p

\* String.prototype.endsWith.
endsWith(s, p) == Len(p) <= Len(s) /\ SubSeq(s, Len(s) - Len(p) + 1, Len(s)) = p

\* String.prototype.slice(from, -cut), from counted from 0.
slice(s, from, cut) == SubSeq(s, from + 1, Len(s) - cut)

RECURSIVE split(_, _)
\* String.prototype.split on one character.
split(s, ch) ==
    IF ~includes(s, ch) THEN <<s>>
    ELSE LET i == CHOOSE j \in 1..Len(s) : s[j] = ch /\ \A k \in 1..(j - 1) : s[k] # ch
         IN  <<SubSeq(s, 1, i - 1)>> \o split(SubSeq(s, i + 1, Len(s)), ch)

RECURSIVE trim(_)
\* String.prototype.trim (blanks only).
trim(s) ==
    IF s # <<>> /\ Head(s) = " " THEN trim(Tail(s))
    ELSE IF s # <<>> /\ s[Len(s)] = " " THEN trim(SubSeq(s, 1, Len(s) - 1))
    ELSE s

\* new RegExp(body) throws on unbalanced parentheses.
regexThrows(body) ==
    Len(SelectSeq(body, LAMBDA c : c = "(")) # Len(SelectSeq(body, LAMBDA c : c = ")"))

\* regex.test(s) for bodies made of literal characters and '.', with an
\* optional leading ^ and trailing $.
regexTest(body, s) ==
    LET atStart == body # <<>> /\ Head(body) = "^"
        b1 == IF atStart THEN Tail(body) ELSE body
        atEnd == b1 # <<>> /\ b1[Len(b1)] = "$"
        lit == IF atEnd THEN SubSeq(b1, 1, Len(b1) - 1) ELSE b1
        matchAt(k) == /\ k + Len(lit) - 1 <= Len(s)
                      /\ \A i \in 1..Len(lit) : lit[i] = "." \/ lit[i] = s[k + i - 1]
    IN  \E k \in 1..(Len(s) + 1) :
            /\ matchAt(k)
            /\ atStart => k = 1
            /\ atEnd => k + Len(lit) - 1 = Len(s)

\* Line 740: widgets[state] is a factory.
exactMatch(k, s) == k = s

\* Lines 742-744: a key with a '|' one of whose trimmed members is the state.
pipeMatch(k, s) ==
    /\ includes(k, "|")
    /\ LET members == split(k, "|")
       IN  \E i \in 1..Len(members) : trim(members[i]) = s

\* Lines 748-750: a key ending in '.*' whose prefix the state starts with.
prefixMatch(k, s) == endsWith(k, <<".", "*">>) /\ startsWith(s, slice(k, 0, 2))

\* Lines 754-758: a /.../ key whose regular expression compiles and matches.
regexMatch(k, s) ==
    /\ startsWith(k, <<"/">>) /\ endsWith(k, <<"/">>)
    /\ Len(k) >= 2
    /\ ~regexThrows(slice(k, 1, 1))
    /\ regexTest(slice(k, 1, 1), s)

\* The first key of ws, in key order, whose index the test `hit` accepts; Null
\* if there is none.
firstKey(ws, hit) ==
    IF \E i \in 1..Len(ws) : hit[i]
    THEN ws[CHOOSE i \in 1..Len(ws) : hit[i] /\ \A j \in 1..(i - 1) : ~hit[j]]
    ELSE Null

\* A plausible slip: one pass over the keys, taking the first key that matches
\* by any rule.
findWidgetOnePass(ws, s) ==
    firstKey(ws, [i \in 1..Len(ws) |->
                    \/ exactMatch(ws[i], s) \/ pipeMatch(ws[i], s) \/ prefixMatch(ws[i], s)
                    \/ regexMatch(ws[i], s) \/ ws[i] = star])

\* What a resolution would yield if an error left findWidget.
Thrown == <<"thrown">>

\* A /.../ key whose regular expression does not compile.
regexInvalid(k) ==
    /\ startsWith(k, <<"/">>) /\ endsWith(k, <<"/">>)
    /\ Len(k) >= 2
    /\ regexThrows(slice(k, 1, 1))

\* A plausible slip: the regex loop without its try/catch, so that the error
\* of new RegExp leaves findWidget when the loop reaches an invalid key
\* before a key that matches.
findWidgetRegexUncaught(ws, s) ==
    LET exact == firstKey(ws, [i \in 1..Len(ws) |-> exactMatch(ws[i], s)])
        pipe == firstKey(ws, [i \in 1..Len(ws) |-> pipeMatch(ws[i], s)])
        prefix == firstKey(ws, [i \in 1..Len(ws) |-> prefixMatch(ws[i], s)])
        regex == firstKey(ws, [i \in 1..Len(ws) |->
                                 regexMatch(ws[i], s) \/ regexInvalid(ws[i])])
        any == firstKey(ws, [i \in 1..Len(ws) |-> ws[i] = star])
    IN  IF exact # Null THEN exact
        ELSE IF pipe # Null THEN pipe
        ELSE IF prefix # Null THEN prefix
        ELSE IF regex # Null THEN (IF regexInvalid(regex) THEN Thrown ELSE regex)
        ELSE any

\* findWidget: the key whose factory is called, or Null. One loop per rule,
\* each over all keys, in this order.
findWidget(ws, s) ==
    LET exact == firstKey(ws, [i \in 1..Len(ws) |-> exactMatch(ws[i], s)])
        pipe == firstKey(ws, [i \in 1..Len(ws) |-> pipeMatch(ws[i], s)])
        prefix == firstKey(ws, [i \in 1..Len(ws) |-> prefixMatch(ws[i], s)])
        regex == firstKey(ws, [i \in 1..Len(ws) |-> regexMatch(ws[i], s)])
        any == firstKey(ws, [i \in 1..Len(ws) |-> ws[i] = star])
    IN  IF exact # Null THEN exact
        ELSE IF pipe # Null THEN pipe
        ELSE IF prefix # Null THEN prefix
        ELSE IF regex # Null THEN regex
        ELSE any

\* Every sequence of at most n distinct keys.
RECURSIVE KeyOrders(_)
KeyOrders(n) ==
    IF n = 0 THEN {<<>>}
    ELSE LET shorter == KeyOrders(n - 1)
         IN  shorter \cup {Append(ws, k) : ws \in shorter, k \in PatternKeys}

ViewTables == {ws \in KeyOrders(MaxKeys) : \A i, j \in 1..Len(ws) : i # j => ws[i] # ws[j]}

Pending == <<"pending">>

ViewInit ==
    /\ widgets \in ViewTables
    /\ viewState \in ViewStates
    /\ resolved = Pending

\* render() resolves the view of the current state.
Resolve ==
    /\ resolved = Pending
    /\ resolved' = findWidget(widgets, viewState)
    /\ UNCHANGED <<widgets, viewState>>

\* The machine moves to another state and is rendered again.
NextState ==
    /\ resolved # Pending
    /\ viewState' \in ViewStates \ {viewState}
    /\ resolved' = Pending
    /\ UNCHANGED widgets

ReactiveIdle ==
    /\ value = [s \in Signals |-> 0]
    /\ cachedValue = [d \in Deriveds |-> 0]
    /\ subscriptions = [c \in Cells |-> <<>>]
    /\ isActive = [e \in Effects |-> FALSE]
    /\ subscriber = NoSubscriber
    /\ burst = <<>>
    /\ runs = NoRuns
    /\ seen = NoSeen
    /\ deps = NoDeps
    /\ outstanding = NoRuns
    /\ uncaught = FALSE
    /\ overflowed = FALSE
    /\ turn = "done"

ViewIdle ==
    /\ widgets = <<>>
    /\ viewState = idle
    /\ resolved = Pending

(***************************************************************************)
(* StateMutable: the transition engine                                     *)
(***************************************************************************)

\* autoStep(maxSteps = 10).
maxSteps == 10
\* At most MaxPromises deferred handler results are unsettled at a time.
MaxPromises == 2

boot == <<"b", "o", "o", "t">>
ping == <<"p", "i", "n", "g">>
pong == <<"p", "o", "n", "g">>
draft == <<"d", "r", "a", "f", "t">>
gate == <<"g", "a", "t", "e">>
warm == <<"w", "a", "r", "m">>
pingOrPong == ping \o <<"|">> \o pong
rePrefix == <<"r", "e", ".", "*">>

Events ==
    {"FETCH", "GO", "NEST", "EDIT", "PASS", "STOP", "SKIP", "LOSE", "REBOOT", "RESET", "PUBLISH"}

\* Handlers, as data. lit: a literal next state. fn: a function that calls
\* this.send(e) for each e of `sends`, then returns `to`. async: a function
\* returning a promise that later resolves to `to` or rejects. chain: a
\* middleware list; a member "next" returns next(args), any other member
\* returns that state without calling next.
NoHandler == [k |-> "none", to |-> Null, sends |-> <<>>, ms |-> <<>>]
Lit(to) == [k |-> "lit", to |-> to, sends |-> <<>>, ms |-> <<>>]
Fn(sends, to) == [k |-> "fn", to |-> to, sends |-> sends, ms |-> <<>>]
Async(to) == [k |-> "async", to |-> to, sends |-> <<>>, ms |-> <<>>]
Chain(ms) == [k |-> "chain", to |-> Null, sends |-> <<>>, ms |-> ms]
CallNext == <<"next">>

\* Object.keys(states()), in declaration order.
stateKeys == <<idle, boot, ping, pong, ready, draft, lost, gate, warm>>
Declared == {stateKeys[i] : i \in 1..Len(stateKeys)}

\* states(): a bare handler (fn, async, chain) or an event map (k = "map").
\* draft is written as the README's "Transition Rules" show: it also carries
\* `next` and `rules` entries, which send() never reads.
states(s) ==
    CASE s = idle -> [k |-> "map", rules |-> FALSE, bare |-> NoHandler,
                      on |-> [e \in Events |->
                                CASE e = "FETCH" -> Async(ready)
                                  [] e = "GO" -> Lit(ping)
                                  [] e = "NEST" -> Fn(<<"EDIT">>, ready)
                                  [] e = "EDIT" -> Lit(draft)
                                  [] e = "PASS" -> Chain(<<CallNext, CallNext>>)
                                  [] e = "STOP" -> Chain(<<CallNext, ready, CallNext>>)
                                  [] e = "SKIP" -> Fn(<<>>, Undefined)
                                  [] e = "LOSE" -> Lit(lost)
                                  [] e = "REBOOT" -> Lit(boot)
                                  [] OTHER -> NoHandler]]
      [] s = boot -> [k |-> "bare", rules |-> FALSE, bare |-> Async(idle),
                      on |-> [e \in Events |-> NoHandler]]
      [] s = ping -> [k |-> "bare", rules |-> FALSE, bare |-> Fn(<<>>, pong),
                      on |-> [e \in Events |-> NoHandler]]
      [] s = pong -> [k |-> "bare", rules |-> FALSE, bare |-> Fn(<<>>, ping),
                      on |-> [e \in Events |-> NoHandler]]
      [] s = ready -> [k |-> "map", rules |-> FALSE, bare |-> NoHandler,
                       on |-> [e \in Events |-> IF e = "RESET" THEN Lit(idle) ELSE NoHandler]]
      [] s = draft -> [k |-> "map", rules |-> TRUE, bare |-> NoHandler,
                       on |-> [e \in Events |-> IF e = "PUBLISH" THEN Lit(ready) ELSE NoHandler]]
      [] s = lost -> [k |-> "map", rules |-> FALSE, bare |-> NoHandler,
                      on |-> [e \in Events |-> IF e = "RESET" THEN Lit(idle) ELSE NoHandler]]
      [] s = gate -> [k |-> "bare", rules |-> FALSE, bare |-> Chain(<<CallNext, ready>>),
                      on |-> [e \in Events |-> NoHandler]]
      [] s = warm -> [k |-> "bare", rules |-> FALSE, bare |-> Fn(<<>>, boot),
                      on |-> [e \in Events |-> NoHandler]]

\* build(): the view table of the machine; lost has no view.
MachineWidgets == <<idle, boot, pingOrPong, rePrefix, draft, gate, warm>>

\* A promise a handler returned: who awaits it, the state the handler was
\* called in, what it would resolve to, and for an autoStep loop the steps it
\* has made.
SendPromise(from, to) == [by |-> "send", from |-> from, to |-> to, steps |-> 0]
AutoPromise(from, to, steps) == [by |-> "auto", from |-> from, to |-> to, steps |-> steps]
NoPromise == [by |-> "none", from |-> Undefined, to |-> Undefined, steps |-> 0]

\* The machine as a record: its fields, the queues of the event loop, and the
\* history of the running task (commits, requested, thrown, evals, calls, req,
\* ran, settling, queued: the pushes on the pending queue).
Machine ==
    [state |-> state, rendering |-> rendering, pendingTransitions |-> pendingTransitions,
     scheduledRender |-> scheduledRender, microtasks |-> microtasks, promises |-> promises,
     warned |-> warned,
     commits |-> <<>>, requested |-> 0, thrown |-> FALSE, evals |-> 0, calls |-> 0, req |-> 0,
     ran |-> 0, settling |-> NoPromise, entryEvals |-> entryEvals, queued |-> 0]

\* A plausible slip: the flag is set and the microtask is not queued.
scheduleRenderFlagOnly(m) == [m EXCEPT !.requested = @ + 1, !.scheduledRender = TRUE]

\* A plausible slip: every call queues a render of its own.
scheduleRenderEveryCall(m) ==
    [m EXCEPT !.requested = @ + 1, !.scheduledRender = TRUE,
              !.microtasks = Append(@, "render")]

\* scheduleRender(): one render microtask per instance at a time.
scheduleRender(m) ==
    LET m1 == [m EXCEPT !.requested = @ + 1]
    IN  IF m1.scheduledRender THEN m1
        ELSE [m1 EXCEPT !.scheduledRender = TRUE, !.microtasks = Append(@, "render")]

\* A plausible slip: the in-flight mark is set before the state is assigned.
RECURSIVE applyTransitionMarkFirst(_, _)
applyTransitionMarkFirst(m, next) ==
    IF next = Undefined \/ m.state = next THEN m
    ELSE IF m.rendering THEN [m EXCEPT !.pendingTransitions = Append(@, next), !.queued = @ + 1]
    ELSE LET m1 == [m EXCEPT !.rendering = TRUE]
             m2 == [m1 EXCEPT !.state = next, !.entryEvals = 0,
                              !.commits = Append(@, [to |-> next, req |-> m.req,
                                                     inFlight |-> m1.rendering])]
             m3 == [scheduleRender(m2) EXCEPT !.rendering = FALSE]
         IN  IF m3.pendingTransitions # <<>>
             THEN applyTransitionMarkFirst([m3 EXCEPT !.pendingTransitions = Tail(@)],
                                           Head(m3.pendingTransitions))
             ELSE m3

\* A plausible slip: the target is not compared with the current state.
RECURSIVE applyTransitionAlways(_, _)
applyTransitionAlways(m, next) ==
    IF m.rendering THEN [m EXCEPT !.pendingTransitions = Append(@, next), !.queued = @ + 1]
    ELSE LET m1 == [m EXCEPT !.state = next, !.entryEvals = 0,
                             !.commits = Append(@, [to |-> next, req |-> m.req,
                                                    inFlight |-> m.rendering])]
             m2 == [m1 EXCEPT !.rendering = TRUE]
             m3 == [scheduleRender(m2) EXCEPT !.rendering = FALSE]
         IN  IF m3.pendingTransitions # <<>>
             THEN applyTransitionAlways([m3 EXCEPT !.pendingTransitions = Tail(@)],
                                        Head(m3.pendingTransitions))
             ELSE m3

\* A plausible slip: the in-flight mark is not taken back (no finally).
applyTransitionNoReset(m, next) ==
    IF next = Undefined \/ m.state = next THEN m
    ELSE IF m.rendering THEN [m EXCEPT !.pendingTransitions = Append(@, next), !.queued = @ + 1]
    ELSE LET m1 == [m EXCEPT !.state = next, !.entryEvals = 0,
                             !.commits = Append(@, [to |-> next, req |-> m.req,
                                                    inFlight |-> m.rendering])]
             m2 == [m1 EXCEPT !.rendering = TRUE]
         IN  scheduleRender(m2)

\* applyTransition(next): nothing for a falsy or unchanged target; queued
\* while a commit is in flight; else assign, mark, schedule the render,
\* unmark, and replay the head of the queue.
RECURSIVE applyTransition(_, _)
applyTransition(m, next) ==
    IF next = Undefined \/ m.state = next THEN m
    ELSE IF m.rendering THEN [m EXCEPT !.pendingTransitions = Append(@, next), !.queued = @ + 1]
    ELSE LET m1 == [m EXCEPT !.state = next, !.entryEvals = 0,
                             !.commits = Append(@, [to |-> next, req |-> m.req,
                                                    inFlight |-> m.rendering])]
             m2 == [m1 EXCEPT !.rendering = TRUE]
             m3 == [scheduleRender(m2) EXCEPT !.rendering = FALSE]
         IN  IF m3.pendingTransitions # <<>>
             THEN applyTransition([m3 EXCEPT !.pendingTransitions = Tail(@)],
                                  Head(m3.pendingTransitions))
             ELSE m3

\* handleTransition(result): a promise is awaited, a state is applied.
handleTransition(m, h) ==
    IF h.k = "async"
    THEN [m EXCEPT !.promises = Append(@, SendPromise(m.state, h.to))]
    ELSE applyTransition(m, h.to)

\* A plausible slip: every member is run whatever it returns, and the chain
\* always ends in the fallback.
chainResultRunsAll(ms, i, current) == current

RECURSIVE chainResult(_, _, _)
\* The `next` of runMiddlewareChain from member i on: past the end it
\* returns the current state.
chainResult(ms, i, current) ==
    IF i > Len(ms) THEN current
    ELSE IF ms[i] = CallNext THEN chainResult(ms, i + 1, current)
    ELSE ms[i]

\* runMiddlewareChain(middleware, payload).
runMiddlewareChain(m, ms) ==
    handleTransition([m EXCEPT !.ran = @ + 1], Lit(chainResult(ms, 1, m.state)))

RECURSIVE send(_, _)
RECURSIVE sendAll(_, _, _)

\* A handler function's body calling this.send for each event of es.
sendAll(m, es, i) == IF i > Len(es) THEN m ELSE sendAll(send(m, es[i]), es, i + 1)

\* Calling a function handler: its body runs (with its own sends), and its
\* result is handed to handleTransition as a request of the calling send.
callHandler(m, h, n) ==
    handleTransition([sendAll(m, h.sends, 1) EXCEPT !.req = n, !.ran = @ + 1], h)

\* handleEventTransition(handler, payload).
handleEventTransition(m, h, n) ==
    CASE h.k = "lit" -> applyTransition([m EXCEPT !.req = n], h.to)
      [] h.k \in {"fn", "async"} -> callHandler(m, h, n)
      [] h.k = "chain" -> runMiddlewareChain([m EXCEPT !.req = n], h.ms)

\* A plausible slip: an event the map does not handle is an error for the
\* caller.
sendRejectsUnhandled(m, ev) ==
    LET n == m.calls + 1
        m0 == [m EXCEPT !.calls = n]
    IN  IF m0.state \notin Declared THEN m0
        ELSE LET handler == states(m0.state)
             IN  IF handler.k = "bare"
                 THEN IF handler.bare.k = "chain"
                      THEN runMiddlewareChain([m0 EXCEPT !.req = n], handler.bare.ms)
                      ELSE callHandler(m0, handler.bare, n)
                 ELSE IF handler.on[ev].k # "none"
                      THEN handleEventTransition(m0, handler.on[ev], n)
                      ELSE [m0 EXCEPT !.thrown = TRUE]

\* A plausible slip: a bare handler is left to autoStep, send looks only at
\* event maps.
sendMapsOnly(m, ev) ==
    LET n == m.calls + 1
        m0 == [m EXCEPT !.calls = n]
    IN  IF m0.state \notin Declared THEN m0
        ELSE LET handler == states(m0.state)
             IN  IF handler.k = "bare" THEN m0
                 ELSE IF handler.on[ev].k # "none"
                      THEN handleEventTransition(m0, handler.on[ev], n)
                      ELSE m0

\* send(event): the handler of the current state decides; an exception is
\* caught and logged. n numbers the send calls of the task.
send(m, ev) ==
    LET n == m.calls + 1
        m0 == [m EXCEPT !.calls = n]
    IN  IF m0.state \notin Declared THEN m0
        ELSE LET handler == states(m0.state)
             IN  IF handler.k = "bare"
                 THEN IF handler.bare.k = "chain"
                      THEN runMiddlewareChain([m0 EXCEPT !.req = n], handler.bare.ms)
                      ELSE callHandler(m0, handler.bare, n)
                 ELSE IF handler.on[ev].k # "none"
                      THEN handleEventTransition(m0, handler.on[ev], n)
                      ELSE m0

RECURSIVE autoStep(_, _)
\* The loop of autoStep from `steps` on: it runs until it awaits a promise,
\* the handler is no function, the handler yields the current state, or
\* maxSteps steps were made (then it warns).
autoStep(m, steps) ==
    IF steps >= maxSteps THEN [m EXCEPT !.warned = TRUE]
    ELSE IF m.state \notin Declared THEN m
    ELSE LET handler == states(m.state)
         IN  IF handler.k # "bare" \/ handler.bare.k = "chain" THEN m
             ELSE LET m1 == [sendAll(m, handler.bare.sends, 1) EXCEPT !.evals = @ + 1, !.req = 0,
                                                                        !.entryEvals = @ + 1]
                  IN  IF handler.bare.k = "async"
                      THEN [m1 EXCEPT !.promises =
                                         Append(@, AutoPromise(m1.state, handler.bare.to, steps))]
                      ELSE IF handler.bare.to # m1.state
                           THEN autoStep(applyTransition(m1, handler.bare.to), steps + 1)
                           ELSE m1

\* autoStep after `await result` returned next.
autoResume(m, next, steps) ==
    IF next # m.state
    THEN autoStep(applyTransition([m EXCEPT !.req = 0], next), steps + 1)
    ELSE m

\* A plausible slip: render resolves the view and starts no autoStep.
renderNoAutoStep(m) ==
    IF findWidget(MachineWidgets, m.state) = Null THEN [m EXCEPT !.thrown = TRUE] ELSE m

\* render(context, widgets): an unresolved view throws before autoStep is
\* started (for state undefined findWidget itself throws, in startsWith).
render(m) ==
    IF findWidget(MachineWidgets, m.state) = Null
    THEN [m EXCEPT !.thrown = TRUE]
    ELSE autoStep(m, 0)

\* What a task leaves in `task`.
Log(kind, ev, guardOk, outcome, m) ==
    [kind |-> kind, pre |-> state, ev |-> ev, guardOk |-> guardOk, outcome |-> outcome,
     commits |-> m.commits, requested |-> m.requested, thrown |-> m.thrown,
     evals |-> m.evals, warnedBefore |-> warned, scheduledBefore |-> scheduledRender,
     ran |-> m.ran, settling |-> m.settling, promisesBefore |-> promises,
     queued |-> m.queued]

SetMachine(m, log) ==
    /\ Len(m.promises) <= MaxPromises
    /\ m.entryEvals <= MaxPromises
    /\ state' = m.state
    /\ rendering' = m.rendering
    /\ pendingTransitions' = m.pendingTransitions
    /\ scheduledRender' = m.scheduledRender
    /\ microtasks' = m.microtasks
    /\ promises' = m.promises
    /\ warned' = m.warned
    /\ task' = log
    /\ rendered' = IF log.kind \in {"hostRender", "render"} THEN state ELSE rendered
    /\ entryEvals' = m.entryEvals

NoTask ==
    [kind |-> "none", pre |-> Undefined, ev |-> "none", guardOk |-> TRUE, outcome |-> "none",
     commits |-> <<>>, requested |-> 0, thrown |-> FALSE, evals |-> 0,
     warnedBefore |-> FALSE, scheduledBefore |-> FALSE,
     ran |-> 0, settling |-> NoPromise, promisesBefore |-> <<>>, queued |-> 0]

\* No render() has been called yet.
NotRendered == <<"none">>

\* The constructor: state = params.init ?? Object.keys(states())[0], where a
\* states() that throws during construction counts as {}.
constructed(init, statesThrew) ==
    IF init # Undefined THEN init
    ELSE IF statesThrew THEN Undefined
    ELSE stateKeys[1]

MachineInit ==
    /\ \E init \in Declared \cup {Undefined}, statesThrew \in BOOLEAN :
           state = constructed(init, statesThrew)
    /\ rendering = FALSE
    /\ pendingTransitions = <<>>
    /\ scheduledRender = FALSE
    /\ microtasks = <<>>
    /\ promises = <<>>
    /\ warned = FALSE
    /\ task = NoTask
    /\ rendered = NotRendered
    /\ entryEvals = 0

\* The host calls send(ev). guardOk is what the rules of the current state
\* would answer for the proposed transition.
Send(ev, guardOk) ==
    /\ microtasks = <<>>
    /\ LET m == send([Machine EXCEPT !.warned = FALSE], ev)
       IN  SetMachine(m, Log("send", ev, guardOk, "none", m))

\* The host calls setState(s).
SetState(s) ==
    /\ microtasks = <<>>
    /\ LET m == scheduleRender([Machine EXCEPT !.state = s, !.entryEvals = 0, !.warned = FALSE])
       IN  SetMachine(m, Log("setState", "none", TRUE, "none", m))

\* The host renders the widget: MutableWidget.render calls render(); what
\* render throws reaches the host.
HostRender ==
    /\ microtasks = <<>>
    /\ LET m == render([Machine EXCEPT !.warned = FALSE])
       IN  SetMachine(m, Log("hostRender", "none", TRUE, "none", m))

\* The microtask scheduleRender queued: _scheduledRender = false, render,
\* and what render throws is caught and logged.
ScheduledRender ==
    /\ microtasks # <<>>
    /\ LET m0 == [Machine EXCEPT !.microtasks = Tail(@), !.scheduledRender = FALSE]
           m1 == render(m0)
           m == [m1 EXCEPT !.thrown = FALSE]
       IN  SetMachine(m, Log("render", "none", TRUE, IF m1.thrown THEN "failed" ELSE "none", m))

\* promises without its i-th member.
Without(ps, i) == SubSeq(ps, 1, i - 1) \o SubSeq(ps, i + 1, Len(ps))

\* A plausible slip: a result that arrives after the machine has left the
\* state the handler was called in is dropped.
settleResolvedIfCurrent(m, p) ==
    IF m.state # p.from THEN m
    ELSE IF p.by = "send" THEN applyTransition([m EXCEPT !.req = 0], p.to)
    ELSE autoResume(m, p.to, p.steps)

\* A pending promise resolves: .then(next => applyTransition(next)) for
\* send, the loop goes on for autoStep.
settleResolved(m, p) ==
    IF p.by = "send" THEN applyTransition([m EXCEPT !.req = 0], p.to)
    ELSE autoResume(m, p.to, p.steps)

\* A plausible slip: the rejection handler goes on as the resolution does.
settleRejectedApplies(m, p) == settleResolved(m, p)

\* A pending promise rejects: .catch logs for send, autoStep's catch logs
\* and leaves the loop.
settleRejected(m, p) == m

Settle(i, outcome) ==
    /\ i \in 1..Len(promises)
    /\ LET m0 == [Machine EXCEPT !.promises = Without(@, i), !.settling = promises[i]]
           m == IF outcome = "resolved" THEN settleResolved(m0, promises[i])
                ELSE settleRejected(m0, promises[i])
       IN  SetMachine(m, Log("settle", promises[i].by, TRUE, outcome, m))

MachineIdle ==
    /\ state = idle
    /\ rendering = FALSE
    /\ pendingTransitions = <<>>
    /\ scheduledRender = FALSE
    /\ microtasks = <<>>
    /\ promises = <<>>
    /\ warned = FALSE
    /\ task = NoTask
    /\ rendered = NotRendered
    /\ entryEvals = 0

(***************************************************************************)
(* BuildContext: provide, read, dispose                                    *)
(***************************************************************************)

\* The contexts of a small widget tree, created root first:
\*   root = new BuildContext(w); mid = new BuildContext(w, root);
\*   leaf1 = new BuildContext(w, mid); leaf2 = new BuildContext(w, mid)
Contexts == {"root", "mid", "leaf1", "leaf2"}
NoContext == "none"
parent(c) ==
    CASE c = "root" -> NoContext
      [] c = "mid" -> "root"
      [] c = "leaf1" -> "mid"
      [] c = "leaf2" -> "mid"

\* The @Injectable service types; each has its own token.
Types == {"S", "T"}

\* What a call can give back besides a provider: it threw.
Throws == "throws"

\* The contexts as a record.
Tree == [providers |-> providers, disposed |-> disposed, children |-> children]

\* provide(type, provider): refused on a disposed context, else the entry of
\* the type's token is set. The provider is named by the context it was
\* registered on.
provide(cs, c, ty) ==
    IF cs.disposed[c] THEN cs ELSE [cs EXCEPT !.providers[c] = @ \cup {ty}]

RECURSIVE read(_, _, _)
\* read(type): refused on a disposed context; the context's own provider,
\* else the parent's read, else an error.
read(cs, c, ty) ==
    IF cs.disposed[c] THEN Throws
    ELSE IF ty \in cs.providers[c] THEN c
    ELSE IF parent(c) # NoContext THEN read(cs, parent(c), ty)
    ELSE Throws

\* _children.indexOf(this) and splice(idx, 1).
spliceOut(s, x) == SelectSeq(s, LAMBDA y : y # x)

RECURSIVE disposeContext(_, _)
RECURSIVE disposeChildren(_, _, _)
\* _children.forEach(child => child.dispose()): forEach walks the array by
\* index while each child's dispose() splices that child out of it.
disposeChildren(cs, c, i) ==
    IF i > Len(cs.children[c]) THEN cs
    ELSE disposeChildren(disposeContext(cs, cs.children[c][i]), c, i + 1)

\* dispose(): once; marks the context, disposes the children, empties the
\* maps, and leaves the parent's _children.
disposeContext(cs, c) ==
    IF cs.disposed[c] THEN cs
    ELSE LET cs1 == disposeChildren([cs EXCEPT !.disposed[c] = TRUE], c, 1)
             cs2 == [cs1 EXCEPT !.children[c] = <<>>, !.providers[c] = {}]
         IN  IF parent(c) # NoContext
             THEN [cs2 EXCEPT !.children[parent(c)] = spliceOut(@, c)]
             ELSE cs2

SetTree(cs) ==
    /\ providers' = cs.providers
    /\ disposed' = cs.disposed
    /\ children' = cs.children

NoCall == [op |-> "none", ctx |-> NoContext, type |-> "none", result |-> "none"]

\* The four contexts after their constructors ran.
ContextInit ==
    /\ providers = [c \in Contexts |-> {}]
    /\ disposed = [c \in Contexts |-> FALSE]
    /\ children = [c \in Contexts |->
                      CASE c = "root" -> <<"mid">>
                        [] c = "mid" -> <<"leaf1", "leaf2">>
                        [] OTHER -> <<>>]
    /\ lastCall = NoCall

\* A widget calls context.provide(type, provider).
Provide(c, ty) ==
    /\ SetTree(provide(Tree, c, ty))
    /\ lastCall' = [op |-> "provide", ctx |-> c, type |-> ty,
                    result |-> IF disposed[c] THEN Throws ELSE "none"]

\* A widget calls context.read(type).
ReadService(c, ty) ==
    /\ UNCHANGED <<providers, disposed, children>>
    /\ lastCall' = [op |-> "read", ctx |-> c, type |-> ty, result |-> read(Tree, c, ty)]

\* The framework calls context.dispose().
DisposeContext(c) ==
    /\ SetTree(disposeContext(Tree, c))
    /\ lastCall' = [op |-> "dispose", ctx |-> c, type |-> "none", result |-> "none"]

ContextIdle == ContextInit

(***************************************************************************)
(* PubSub: subscribe, once, unsubscribe, clear, publish                    *)
(***************************************************************************)

\* At most MaxOnce once() calls are made and at most MaxQueue handler calls
\* wait in the microtask queue.
MaxOnce == 1
MaxQueue == 2

\* The event the host publishes, and the keys of the subscribers Map: the
\* event name and the wildcard.
EventNames == {"e"}
Keys == EventNames \cup {"*"}

\* The handlers: the function h1 the host subscribes, and the
\* wrapper that the id-th once() call built around the host's function for
\* the key ev.
Plain(h) == [kind |-> "plain", h |-> h, id |-> 0, ev |-> "none"]
OnceWrapper(id, ev) == [kind |-> "once", h |-> "o", id |-> id, ev |-> ev]
PlainHandlers == {Plain("h1")}

\* The PubSub instance and the microtask queue as a record.
Bus ==
    [subscribers |-> subscribers, present |-> present, deliveries |-> deliveries,
     nextOnce |-> nextOnce, onceRuns |-> onceRuns, lastDelivery |-> lastDelivery]

\* subscribe(eventName, handler): the key's Set is made if the Map has none,
\* and the handler added to it.
subscribe(ps, key, handler) ==
    [ps EXCEPT !.present = @ \cup {key},
               !.subscribers[key] = SetAdd(IF key \in ps.present THEN @ ELSE <<>>, handler)]

\* A plausible slip: the Set that became empty stays in the Map.
unsubscribeKeepsEmpty(ps, key, handler) ==
    IF key \notin ps.present THEN ps
    ELSE [ps EXCEPT !.subscribers[key] = SetDelete(@, handler)]

\* unsubscribe(eventName, handler): the handler leaves the key's Set, and a
\* Set that became empty leaves the Map.
unsubscribe(ps, key, handler) ==
    IF key \notin ps.present THEN ps
    ELSE LET set == SetDelete(ps.subscribers[key], handler)
         IN  IF set = <<>>
             THEN [ps EXCEPT !.present = @ \ {key}, !.subscribers[key] = <<>>]
             ELSE [ps EXCEPT !.subscribers[key] = set]

\* unsubscribe(eventName) without a handler, and clear(eventName): the key
\* leaves the Map.
deleteKey(ps, key) ==
    [ps EXCEPT !.present = @ \ {key}, !.subscribers[key] = <<>>]

\* clear(): the Map is emptied.
clear(ps) == [ps EXCEPT !.present = {}, !.subscribers = [k \in Keys |-> <<>>]]

\* once(eventName, handler): a new wrapper is subscribed.
once(ps, key) ==
    subscribe([ps EXCEPT !.nextOnce = @ + 1], key, OnceWrapper(ps.nextOnce, key))

\* publish(eventName, payload): the handlers of the event's Set and of the
\* wildcard's Set, as they are now, each called in a microtask of its own.
\* `via` is the key under which the handler was found.
publish(ps, name) ==
    LET set == IF name \in ps.present THEN ps.subscribers[name] ELSE <<>>
        wildcard == IF "*" \in ps.present THEN ps.subscribers["*"] ELSE <<>>
        handlers == set \o wildcard
    IN  [ps EXCEPT !.deliveries =
            @ \o [i \in 1..Len(handlers) |->
                    [h |-> handlers[i], key |-> name,
                     via |-> IF i <= Len(set) THEN name ELSE "*"]]]

NoDelivery == [h |-> Plain("none"), key |-> "none", via |-> "none", subscribed |-> TRUE]

\* The microtask `() => h(payload, key)` for the head of the queue. A once
\* wrapper calls the host's function and then, in finally, unsubscribes
\* itself from the key it was registered for.
deliver(ps) ==
    LET d == Head(ps.deliveries)
        ps1 == [ps EXCEPT !.deliveries = Tail(@),
                          !.lastDelivery =
                              [h |-> d.h, key |-> d.key, via |-> d.via,
                               subscribed |-> /\ d.via \in ps.present
                                              /\ InSeq(d.h, ps.subscribers[d.via])]]
    IN  IF d.h.kind = "once"
        THEN unsubscribe([ps1 EXCEPT !.onceRuns[d.h.id] = @ + 1], d.h.ev, d.h)
        ELSE ps1

\* debugSnapshot(): the size of every Set of the Map.
debugSnapshot(ps) == [k \in ps.present |-> Len(ps.subscribers[k])]

SetBus(ps) ==
    /\ subscribers' = ps.subscribers
    /\ present' = ps.present
    /\ deliveries' = ps.deliveries
    /\ nextOnce' = ps.nextOnce
    /\ onceRuns' = ps.onceRuns
    /\ lastDelivery' = ps.lastDelivery

\* getInstance(): an empty Map.
PubSubInit ==
    /\ subscribers = [k \in Keys |-> <<>>]
    /\ present = {}
    /\ deliveries = <<>>
    /\ nextOnce = 1
    /\ onceRuns = [i \in 1..MaxOnce |-> 0]
    /\ lastDelivery = NoDelivery

PubSubIdle == PubSubInit

\* The wrappers the once() calls made so far have built.
Wrappers == {OnceWrapper(i, k) : i \in 1..(nextOnce - 1), k \in Keys}

\* The host calls subscribe(key, h).
Subscribe(key, h) == SetBus(subscribe(Bus, key, h))

\* The host calls once(key, o).
Once(key) ==
    /\ nextOnce <= MaxOnce
    /\ SetBus(once(Bus, key))

\* The host calls unsubscribe(key, h), or the function that subscribe or
\* once returned.
Unsubscribe(key, h) ==
    /\ key \in present /\ InSeq(h, subscribers[key])
    /\ SetBus(unsubscribe(Bus, key, h))

\* The host calls unsubscribe(key) or clear(key).
ClearKey(key) ==
    /\ key \in present
    /\ SetBus(deleteKey(Bus, key))

\* The host calls clear().
Clear ==
    /\ present # {}
    /\ SetBus(clear(Bus))

\* The host calls publish(name, payload).
Publish(name) ==
    /\ Len(publish(Bus, name).deliveries) <= MaxQueue
    /\ publish(Bus, name).deliveries # deliveries
    /\ SetBus(publish(Bus, name))

\* The event loop runs the next microtask.
Deliver ==
    /\ deliveries # <<>>
    /\ SetBus(deliver(Bus))

(***************************************************************************)
(* OrigamiBloc: subscribe, send                                            *)
(***************************************************************************)

\* At most MaxListeners callbacks are subscribed to one state.
MaxListeners == 2

\* The bloc under study:
\*   states() { return {
\*     entry: { LOAD: 'loading', FINISH: 'done',
\*              LOADFN: () => 'loading',
\*              SAVE: () => ({ state: 'done', data: 'd1' }) },
\*     loading: () => ({ state: 'done', data: 'd1' })
\*   } }
BlocStates == {"loading", "done"}
BlocEvents == {"LOAD", "FINISH", "LOADFN", "SAVE", "OTHER"}
Callbacks == {"c1", "c2"}
NoData == "undefined"

\* A Return value: a state name (data undefined) or a { state, data } pair;
\* NoReturn is undefined.
Ret(s, d) == [state |-> s, data |-> d]
NoReturn == Ret("none", NoData)

\* states().entry[event]: a literal state, a function and what it returns, or
\* nothing.
entryHandler(ev) ==
    CASE ev = "LOAD" -> [k |-> "lit", ret |-> Ret("loading", NoData)]
      [] ev = "FINISH" -> [k |-> "lit", ret |-> Ret("done", NoData)]
      [] ev = "LOADFN" -> [k |-> "fn", ret |-> Ret("loading", NoData)]
      [] ev = "SAVE" -> [k |-> "fn", ret |-> Ret("done", "d1")]
      [] OTHER -> [k |-> "none", ret |-> NoReturn]

\* states()[state]: the function of a state and what it returns, or nothing.
stateHandler(s) ==
    IF s = "loading" THEN [k |-> "fn", ret |-> Ret("done", "d1")]
    ELSE [k |-> "none", ret |-> NoReturn]

\* The bloc as a record: its listeners and the history of the running send
\* (the callbacks called with their data, the states whose function autoStep
\* called, the entry functions called).
Bloc == [listeners |-> listeners, notified |-> <<>>, stepped |-> <<>>, called |-> 0]

RECURSIVE blocApplyTransition(_, _)
RECURSIVE blocAutoStep(_, _)

\* applyTransition(next): nothing for a falsy next; else every listener of
\* the state is called with the data, then autoStep(nextState).
blocApplyTransition(b, next) ==
    IF next = NoReturn THEN b
    ELSE LET eventListeners == b.listeners[next.state]
             b1 == [b EXCEPT !.notified =
                       @ \o [i \in 1..Len(eventListeners) |->
                               [state |-> next.state, cb |-> eventListeners[i],
                                data |-> next.data]]]
         IN  blocAutoStep(b1, next.state)

\* autoStep(state): a function handler is called and what it returns is
\* applied (shouldTransition is always true).
blocAutoStep(b, s) ==
    LET handler == stateHandler(s)
    IN  IF handler.k = "fn"
        THEN blocApplyTransition([b EXCEPT !.stepped = Append(@, s)], handler.ret)
        ELSE b

\* resolveTransition(result, payload): a function is called and the method
\* returns; a literal is applied.
resolveTransition(b, h) ==
    IF h.k = "fn" THEN [b EXCEPT !.called = @ + 1]
    ELSE blocApplyTransition(b, h.ret)

\* send(event, payload).
blocSend(b, ev) ==
    IF entryHandler(ev).k # "none" THEN resolveTransition(b, entryHandler(ev)) ELSE b

NoSend == [ev |-> "none", notified |-> <<>>, stepped |-> <<>>, called |-> 0]

BlocInit ==
    /\ listeners = [s \in BlocStates |-> <<>>]
    /\ blocLast = NoSend

BlocIdle == BlocInit

\* The host calls subscribe({ [s]: cb }).
BlocSubscribe(s, cb) ==
    /\ Len(listeners[s]) < MaxListeners
    /\ listeners' = [listeners EXCEPT ![s] = Append(@, cb)]
    /\ UNCHANGED blocLast

\* The host calls send(ev).
BlocSend(ev) ==
    /\ LET b == blocSend(Bloc, ev)
       IN  blocLast' = [ev |-> ev, notified |-> b.notified, stepped |-> b.stepped,
                        called |-> b.called]
    /\ UNCHANGED listeners

(***************************************************************************)
(* Specifications                                                          *)
(***************************************************************************)

\* The dependency graph of one ReactiveWidget.
InitReactive == ReactiveInit /\ MachineIdle /\ ViewIdle /\ ContextIdle /\ PubSubIdle /\ BlocIdle
NextReactive ==
    \/ \E s \in HostSignals, v \in Val : Write(s, v) /\ UNCHANGED <<machineVars, viewVars, contextVars, pubsubVars, blocVars>>
    \/ \E e \in Disposers : DisposeEffect(e) /\ UNCHANGED <<machineVars, viewVars, contextVars, pubsubVars, blocVars>>
    \/ DisposeWidget /\ UNCHANGED <<machineVars, viewVars, contextVars, pubsubVars, blocVars>>
    \/ EndTurn /\ UNCHANGED <<machineVars, viewVars, contextVars, pubsubVars, blocVars>>
SpecReactive == InitReactive /\ [][NextReactive]_vars

\* The signals and derived signals of a widget under the host's writes to both.
NextDerived ==
    \/ \E s \in HostSignals, v \in Val : Write(s, v) /\ UNCHANGED <<machineVars, viewVars, contextVars, pubsubVars, blocVars>>
    \/ \E d \in Deriveds, v \in Val : WriteDerived(d, v) /\ UNCHANGED <<machineVars, viewVars, contextVars, pubsubVars, blocVars>>
    \/ EndTurn /\ UNCHANGED <<machineVars, viewVars, contextVars, pubsubVars, blocVars>>
SpecDerived == InitReactive /\ [][NextDerived]_vars

\* The widget's graph under the host's writes to y, the signal its
\* self-writing effect reads and writes, and to a.
LoopSignals == {"a", "y"}
NextLoop ==
    \/ \E s \in LoopSignals, v \in Val : Write(s, v) /\ UNCHANGED <<machineVars, viewVars, contextVars, pubsubVars, blocVars>>
    \/ EndTurn /\ UNCHANGED <<machineVars, viewVars, contextVars, pubsubVars, blocVars>>
SpecLoop == InitReactive /\ [][NextLoop]_vars

\* One StateMutable instance and the event loop around it.
InitMachine == MachineInit /\ ReactiveIdle /\ ViewIdle /\ ContextIdle /\ PubSubIdle /\ BlocIdle
NextMachine ==
    \/ \E ev \in Events, guardOk \in BOOLEAN : Send(ev, guardOk) /\ UNCHANGED <<reactiveVars, viewVars, contextVars, pubsubVars, blocVars>>
    \/ \E s \in Declared : SetState(s) /\ UNCHANGED <<reactiveVars, viewVars, contextVars, pubsubVars, blocVars>>
    \/ HostRender /\ UNCHANGED <<reactiveVars, viewVars, contextVars, pubsubVars, blocVars>>
    \/ ScheduledRender /\ UNCHANGED <<reactiveVars, viewVars, contextVars, pubsubVars, blocVars>>
    \/ \E i \in 1..MaxPromises, outcome \in {"resolved", "rejected"} :
           Settle(i, outcome) /\ UNCHANGED <<reactiveVars, viewVars, contextVars, pubsubVars, blocVars>>
SpecMachine == InitMachine /\ [][NextMachine]_vars

\* The same machine with the event loop's guarantee that a queued microtask
\* is run: weak fairness of ScheduledRender, whose enabling condition is that
\* the microtask queue is not empty and whose steps are those that leave a
\* task of kind "render".
FairSpecMachine ==
    /\ SpecMachine
    /\ \/ []<>(microtasks = <<>>)
       \/ []<><<task'.kind = "render">>_vars

\* View resolution over every table and state.
InitView == ViewInit /\ ReactiveIdle /\ MachineIdle /\ ContextIdle /\ PubSubIdle /\ BlocIdle
NextView ==
    \/ Resolve /\ UNCHANGED <<reactiveVars, machineVars, contextVars, pubsubVars, blocVars>>
    \/ NextState /\ UNCHANGED <<reactiveVars, machineVars, contextVars, pubsubVars, blocVars>>
SpecView == InitView /\ [][NextView]_vars

\* A tree of BuildContexts under provide, read and dispose.
InitContext == ContextInit /\ ReactiveIdle /\ MachineIdle /\ ViewIdle /\ PubSubIdle /\ BlocIdle
NextContext ==
    \/ \E c \in Contexts, ty \in Types :
           Provide(c, ty) /\ UNCHANGED <<reactiveVars, machineVars, viewVars, pubsubVars, blocVars>>
    \/ \E c \in Contexts, ty \in Types :
           ReadService(c, ty) /\ UNCHANGED <<reactiveVars, machineVars, viewVars, pubsubVars, blocVars>>
    \/ \E c \in Contexts :
           DisposeContext(c) /\ UNCHANGED <<reactiveVars, machineVars, viewVars, pubsubVars, blocVars>>
SpecContext == InitContext /\ [][NextContext]_vars

\* One PubSub instance, the host's calls on it and the microtask queue.
InitPubSub == PubSubInit /\ ReactiveIdle /\ MachineIdle /\ ViewIdle /\ ContextIdle /\ BlocIdle
NextPubSub ==
    \/ \E k \in Keys, h \in PlainHandlers :
           Subscribe(k, h) /\ UNCHANGED <<reactiveVars, machineVars, viewVars, contextVars, blocVars>>
    \/ \E k \in Keys : Once(k) /\ UNCHANGED <<reactiveVars, machineVars, viewVars, contextVars, blocVars>>
    \/ \E k \in Keys, h \in PlainHandlers \cup Wrappers :
           Unsubscribe(k, h) /\ UNCHANGED <<reactiveVars, machineVars, viewVars, contextVars, blocVars>>
    \/ \E k \in Keys : ClearKey(k) /\ UNCHANGED <<reactiveVars, machineVars, viewVars, contextVars, blocVars>>
    \/ Clear /\ UNCHANGED <<reactiveVars, machineVars, viewVars, contextVars, blocVars>>
    \/ \E n \in EventNames : Publish(n) /\ UNCHANGED <<reactiveVars, machineVars, viewVars, contextVars, blocVars>>
    \/ Deliver /\ UNCHANGED <<reactiveVars, machineVars, viewVars, contextVars, blocVars>>
SpecPubSub == InitPubSub /\ [][NextPubSub]_vars

\* One OrigamiBloc, the host's subscribe and send calls.
InitBloc == BlocInit /\ ReactiveIdle /\ MachineIdle /\ ViewIdle /\ ContextIdle /\ PubSubIdle
NextBloc ==
    \/ \E s \in BlocStates, cb \in Callbacks :
           BlocSubscribe(s, cb) /\ UNCHANGED <<reactiveVars, machineVars, viewVars, contextVars, pubsubVars>>
    \/ \E ev \in BlocEvents :
           BlocSend(ev) /\ UNCHANGED <<reactiveVars, machineVars, viewVars, contextVars, pubsubVars>>
SpecBloc == InitBloc /\ [][NextBloc]_vars

(***************************************************************************)
(* Properties                                                              *)
(***************************************************************************)

\* The writes of the finished turn changed both a and b, in one turn.
WroteAandB ==
    /\ turn = "done" /\ Len(burst) = 2
    /\ {burst[1].sig, burst[2].sig} = {"a", "b"}
    /\ \A i \in 1..2 : burst[i].old # burst[i].new
    /\ isActive["eAB"]

\* C1 (batching): a turn that writes both signals read by effect eAB reruns
\* eAB exactly once, and that rerun reads both final values.
C1_BatchedRerun ==
    WroteAandB => runs["eAB"] = 1 /\ seen["eAB"] = <<(<<value["a"], value["b"]>>)>>

\* The finished turn made one write, to the root a, that changed it.
WroteRootOnce ==
    /\ turn = "done" /\ Len(burst) = 1
    /\ burst[1].sig = "a" /\ burst[1].old # burst[1].new
    /\ \A e \in {"d1", "d2", "eD"} : isActive[e]

\* C2 (diamond): one write to the root a reruns effect eD, which reads the
\* derived signals d1 and d2 of a, at most once.
C2_DiamondOnce == WroteRootOnce => runs["eD"] <= 1

\* C3 (equality suppression): a write of the value the signal already holds
\* reruns no effect and leaves the value.
C3_EqualWriteSilent ==
    (turn = "done" /\ Len(burst) = 1 /\ burst[1].sig \in Signals /\ burst[1].old = burst[1].new)
        => /\ \A e \in Effects : runs[e] = 0
           /\ value[burst[1].sig] = burst[1].old

\* C4 (reentrant queuing): the transitions committed by one host send are
\* committed in the order of the send calls that requested them.
C4_CommitsInRequestOrder ==
    task.kind = "send" =>
        \A i, j \in 1..Len(task.commits) :
            i < j => task.commits[i].req <= task.commits[j].req

C6_GuardRejects ==
    (task.kind = "send" /\ task.pre \in Declared /\ ~task.guardOk)
        => (states(task.pre).rules => state = task.pre /\ task.requested = 0)

\* C7 (async rejection): a rejected handler promise leaves the state, requests
\* no render, commits nothing, and nothing is thrown to the caller.
C7_RejectionAbandons ==
    (task.kind = "settle" /\ task.outcome = "rejected")
        => /\ state = task.pre
           /\ task.commits = <<>>
           /\ task.requested = 0
           /\ scheduledRender = task.scheduledBefore
           /\ ~task.thrown

\* C7 witness: the promise of an auto-step handler was rejected, after the
\* promise of a send handler was.
C7_Witness ==
    /\ task.kind = "settle" /\ task.outcome = "rejected" /\ task.ev = "auto"
    /\ state = boot

\* C8 (auto-step bound): once an autoStep loop has stopped at maxSteps, the
\* renders the engine scheduled evaluate no auto-handler and commit nothing.
C8_HaltsAtLimit ==
    (task.kind = "render" /\ task.warnedBefore)
        => task.evals = 0 /\ task.commits = <<>>

\* C9 (declared state): the state is always a key of states().
C9_StateDeclared == state \in Declared

\* The rule of highest priority by which key k matches state s: 1 exact,
\* 2 alternation, 3 prefix, 4 regex, 5 '*', 6 none.
rank(k, s) ==
    IF exactMatch(k, s) THEN 1
    ELSE IF pipeMatch(k, s) THEN 2
    ELSE IF prefixMatch(k, s) THEN 3
    ELSE IF regexMatch(k, s) THEN 4
    ELSE IF k = star THEN 5
    ELSE 6

C11_NoStaleSubscription ==
    \A e \in PlainEffects, c \in Cells :
        (isActive[e] /\ InSeq(e, subscriptions[c])) => c \in deps[e]

\* C15 (deferred reruns): while the host's turn is still running, no write of
\* the turn has run an effect.
C15_NoSynchronousRerun == turn = "burst" => \A e \in Effects : runs[e] = 0

\* C16 (inert after disposal): no step runs the body of an effect that is
\* disposed, by its own disposer or by the widget's dispose().
C16_DisposedNeverRuns ==
    [][\A e \in Effects :
          ~isActive[e] => runs'[e] <= (IF turn = "done" THEN 0 ELSE runs[e])]_vars

\* C16 witness: eC was disposed while still subscribed to the foreign signal x,
\* and a later write of the turn reran eW, which wrote x: eC did not run.
C16_Witness ==
    /\ ~isActive["eC"]
    /\ InSeq("eC", subscriptions["x"])
    /\ turn = "burst"
    /\ runs["eW"] >= 1
    /\ runs["eC"] = 0

\* C17 (effect cleanup): of the cleanup functions an effect's runs returned,
\* at most the latest one is still to be invoked, and none once the effect is
\* disposed.
C17_CleanupInvoked ==
    \A e \in ReturnsCleanup : outstanding[e] <= 1 /\ (~isActive[e] => outstanding[e] = 0)

\* C18 (tracking frames): an active effect is a subscriber of every cell its
\* latest run read, also of those it read after a nested run finished.
C18_OuterKeepsTracking ==
    \A e \in PlainEffects : isActive[e] => \A c \in deps[e] : InSeq(e, subscriptions[c])

\* C20 (read-only derived): a write to a derived signal leaves its value as it
\* was and runs no effect.
C20_DerivedWriteRejected ==
    [][(/\ Len(burst') > 0
        /\ burst' = Append(TurnBurst, burst'[Len(burst')])
        /\ burst'[Len(burst')].sig \in Deriveds)
          => (/\ cachedValue' = cachedValue
              /\ runs' = TurnGraph.runs
              /\ subscriptions' = subscriptions)]_vars

\* C20 witness: the host wrote to a derived signal that eD reads a value other
\* than the one it holds.
C20_Witness ==
    /\ turn = "burst"
    /\ Len(burst) > 0
    /\ burst[Len(burst)].sig \in Deriveds
    /\ burst[Len(burst)].new # burst[Len(burst)].old
    /\ InSeq("eD", subscriptions[burst[Len(burst)].sig])

\* C12 (later send waits): a send made while the promise of an earlier send's
\* handler is pending commits nothing in its own task.
C12_LaterSendWaits ==
    (/\ task.kind = "send"
     /\ \E i \in 1..Len(task.promisesBefore) : task.promisesBefore[i].by = "send")
        => task.commits = <<>>

C19_UnresolvedViewThrows ==
    (/\ task.kind \in {"hostRender", "render"}
     /\ task.pre \in Declared
     /\ findWidget(MachineWidgets, task.pre) = Null)
        => task.thrown

\* The cells an effect has read, itself or through a derived signal it read:
\* the first run of every effect reads every cell of EffectReads.
ReadBy(e) ==
    LET direct == {EffectReads(e)[i] : i \in 1..Len(EffectReads(e))}
    IN  direct \cup UNION {{EffectReads(d)[i] : i \in 1..Len(EffectReads(d))} :
                              d \in direct \cap Deriveds}

\* C21 (only readers rerun): a host write to a signal runs no effect that has
\* not read that signal, itself or through a derived signal.
C21_OnlyReadersRerun ==
    [][(/\ Len(burst') > 0
        /\ burst' = Append(TurnBurst, burst'[Len(burst')])
        /\ burst'[Len(burst')].sig \in Signals)
          => \A e \in Effects :
                 runs'[e] > TurnGraph.runs[e] => burst'[Len(burst')].sig \in ReadBy(e)]_vars

\* C21 witness: a write to b ran eB, which reads b, and did not run eD, which
\* is active and reads only the derived signals of a.
C21_Witness ==
    /\ turn = "burst"
    /\ Len(burst) = 1
    /\ burst[1].sig = "b"
    /\ isActive["eD"] /\ isActive["eB"]
    /\ runs["eB"] = 1
    /\ runs["eD"] = 0

\* What a middleware list proposes: the result of its first member that
\* returns without calling next, or the current state when every member
\* calls next.
Proposed(ms, current) ==
    IF \A i \in 1..Len(ms) : ms[i] = CallNext THEN current
    ELSE ms[CHOOSE i \in 1..Len(ms) :
                /\ ms[i] # CallNext
                /\ \A j \in 1..(i - 1) : ms[j] = CallNext]

\* C22 (bare handler ignores the event): a send in a state whose handler is a
\* bare function or a middleware list runs that handler once, and what it
\* leaves is fixed by the state alone: the function's result is committed, its
\* promise is awaited, or the list's proposal is committed.
C22_BareHandlerForEveryEvent ==
    (task.kind = "send" /\ task.pre \in Declared /\ states(task.pre).k = "bare")
        => LET h == states(task.pre).bare
           IN  /\ task.ran = 1
               /\ h.k = "fn" => state = h.to /\ promises = task.promisesBefore
               /\ h.k = "async" =>
                      /\ state = task.pre
                      /\ promises = Append(task.promisesBefore, SendPromise(task.pre, h.to))
               /\ h.k = "chain" =>
                      /\ state = Proposed(h.ms, task.pre)
                      /\ promises = task.promisesBefore

\* C22 witness: gate, whose handler is a middleware list, was sent PUBLISH,
\* an event no handler of the machine names in that state.
C22_Witness ==
    /\ task.kind = "send"
    /\ task.pre = gate
    /\ task.ev = "PUBLISH"
    /\ state = ready

\* C23 (middleware chain): a send handled by a middleware list of an event map
\* commits the result of the first member that does not call next; when every
\* member calls next the send changes nothing, requests no render and throws
\* nothing.
C23_ChainFallsBackToCurrent ==
    (/\ task.kind = "send"
     /\ task.pre \in Declared
     /\ states(task.pre).k = "map"
     /\ states(task.pre).on[task.ev].k = "chain")
        => LET ms == states(task.pre).on[task.ev].ms
           IN  /\ state = Proposed(ms, task.pre)
               /\ ~task.thrown
               /\ IF Proposed(ms, task.pre) = task.pre
                  THEN /\ task.commits = <<>>
                       /\ task.requested = 0
                       /\ scheduledRender = task.scheduledBefore
                  ELSE /\ Len(task.commits) = 1
                       /\ task.commits[1].to = Proposed(ms, task.pre)

\* C23 witness: idle was sent PASS, whose two middleware both call next.
C23_Witness ==
    /\ task.kind = "send"
    /\ task.pre = idle
    /\ task.ev = "PASS"
    /\ task.ran = 1

\* C24 (a throwing effect is contained): no exception of an effect reaches the
\* host that wrote the signal, and the write to b that makes eB throw still
\* runs every other active subscriber of b.
C24_ThrowIsContained ==
    /\ ~uncaught
    /\ (/\ turn = "burst"
        /\ Len(burst) = 1
        /\ burst[1].sig = "b"
        /\ InSeq(Throw, Body(Graph, "eB")))
          => \A e \in Effects :
                 (isActive[e] /\ InSeq(e, subscriptions["b"])) => runs[e] >= 1

\* C24 witness: the write b = 1 ran eB, which threw, and then eC, which is
\* subscribed to b after eB.
C24_Witness ==
    /\ turn = "burst"
    /\ Len(burst) = 1
    /\ burst[1].sig = "b"
    /\ InSeq(Throw, Body(Graph, "eB"))
    /\ runs["eB"] = 1
    /\ isActive["eC"]
    /\ runs["eC"] = 1

\* C25 (derived equality): after one write to a, every derived signal was
\* recomputed once and holds fn(a), and eD, which reads both derived signals,
\* was rerun once for each derived signal whose value changed and not for one
\* whose recomputation gave the cached value.
C25_SameValueSilent ==
    (/\ turn = "burst"
     /\ Len(burst) = 1
     /\ burst[1].sig = "a"
     /\ \A e \in Deriveds \cup {"eD"} : isActive[e])
        => /\ \A d \in Deriveds : runs[d] = 1 /\ cachedValue[d] = DerivedFn(d, burst[1].new)
           /\ runs["eD"] = Cardinality({d \in Deriveds :
                                           DerivedFn(d, burst[1].new) # DerivedFn(d, burst[1].old)})

\* C25 witness: a write changed a and left d1 as it was: eD was rerun once, by
\* d2 alone.
C25_Witness ==
    /\ turn = "burst"
    /\ Len(burst) = 1
    /\ burst[1].sig = "a"
    /\ burst[1].new # burst[1].old
    /\ DerivedFn("d1", burst[1].new) = DerivedFn("d1", burst[1].old)
    /\ isActive["d1"] /\ isActive["eD"]
    /\ runs["d1"] = 1
    /\ runs["eD"] = 1

\* The nearest context of c's parent chain, c first, that holds a provider of
\* ty, or Throws when none does.
RECURSIVE Nearest(_, _)
Nearest(c, ty) ==
    IF ty \in providers[c] THEN c
    ELSE IF parent(c) = NoContext THEN Throws
    ELSE Nearest(parent(c), ty)

\* C26 (scoped services): read(T) on a context that is not disposed gives the
\* provider registered for T on the nearest context of its parent chain, and
\* throws only when no context of the chain provides T.
C26_ReadFindsNearest ==
    (lastCall.op = "read" /\ ~disposed[lastCall.ctx])
        => lastCall.result = Nearest(lastCall.ctx, lastCall.type)

\* C27 (render follows commit): a task that committed a transition leaves a
\* render queued; whenever no render is queued, the last render made was made
\* in the current state; and a queued render does run.
C27_RenderFollowsCommit ==
    /\ [](task.commits # <<>> => microtasks # <<>> /\ scheduledRender)
    /\ []((microtasks = <<>> /\ rendered # NotRendered) => rendered = state)
    /\ ((task.commits # <<>>) ~> (task.kind = "render"))

\* C27 witness: a send committed a transition and its render is queued.
C27_Witness ==
    /\ task.kind = "send"
    /\ task.commits # <<>>
    /\ state # task.pre
    /\ microtasks = <<"render">>

\* Whether the handler of state s is a bare function that yields a state
\* other than s at once.
StepsOn(s) ==
    /\ s \in Declared
    /\ states(s).k = "bare"
    /\ states(s).bare.k = "fn"
    /\ states(s).bare.to # s

\* C28 (auto-step): a render that resolved its view in a state with a bare
\* function handler yielding another state commits that state with no send,
\* and goes on from each state it commits until a state that does not step
\* on or maxSteps commits; the state a bare function's promise resolves to is
\* committed likewise; a render in a state with an event map commits nothing.
C28_AutoStepAfterRender ==
    /\ (/\ task.kind \in {"hostRender", "render"}
        /\ task.pre \in Declared
        /\ findWidget(MachineWidgets, task.pre) # Null)
          => /\ states(task.pre).k = "map" =>
                    task.commits = <<>> /\ task.evals = 0 /\ state = task.pre
             /\ StepsOn(task.pre) =>
                    /\ task.commits # <<>>
                    /\ task.commits[1].to = states(task.pre).bare.to
                    /\ \A i \in 1..Len(task.commits) : task.commits[i].req = 0
                    /\ \A i \in 1..(Len(task.commits) - 1) :
                           /\ StepsOn(task.commits[i].to)
                           /\ task.commits[i + 1].to = states(task.commits[i].to).bare.to
                    /\ Len(task.commits) = maxSteps \/ ~StepsOn(state)
    /\ (/\ task.kind = "settle" /\ task.outcome = "resolved"
        /\ task.settling.by = "auto"
        /\ task.settling.to # task.pre)
          => task.commits # <<>> /\ task.commits[1].to = task.settling.to

\* C28 witness: the render scheduled by a commit ran in ping, whose handler
\* yields pong, and stepped on without any send.
C28_Witness ==
    /\ task.kind = "render"
    /\ task.pre = ping
    /\ Len(task.commits) >= 2
    /\ task.commits[1].to = pong
    /\ task.commits[2].to = ping

\* C29 (no-op commit): a task whose only call of applyTransition has the
\* current state or a falsy value as its target (a chain run past its end, a
\* handler returning undefined, a promise resolving to the current state)
\* leaves the state, the pending queue and the scheduled-render flag as they
\* were and requests no render.
C29_SameTargetNoOp ==
    (\/ task.kind = "send" /\ task.pre = idle /\ task.ev \in {"PASS", "SKIP"}
     \/ /\ task.kind = "settle" /\ task.outcome = "resolved"
        /\ task.settling.by = "send"
        /\ task.settling.to = task.pre)
        => /\ state = task.pre
           /\ task.commits = <<>>
           /\ task.requested = 0
           /\ pendingTransitions = <<>>
           /\ scheduledRender = task.scheduledBefore
           /\ microtasks = IF task.scheduledBefore THEN <<"render">> ELSE <<>>

\* C29 witness: a promise resolved to the state the machine was in, while a
\* render was scheduled.
C29_Witness ==
    /\ task.kind = "settle" /\ task.outcome = "resolved"
    /\ task.settling.by = "send"
    /\ task.settling.to = task.pre
    /\ task.scheduledBefore

\* The table ws without the key k.
WithoutKey(ws, k) == SelectSeq(ws, LAMBDA x : x # k)

\* Whether a key of ws matches s by one of the rules tried before the regex
\* loop.
EarlierRule(ws, s) ==
    \E i \in 1..Len(ws) :
        exactMatch(ws[i], s) \/ pipeMatch(ws[i], s) \/ prefixMatch(ws[i], s)

\* C30 (invalid pattern): with a /.../ key whose regular expression does not
\* compile in the table, resolution does not throw and never takes that key;
\* it yields what the table without the key yields: when no earlier rule
\* matches, the first regex key that compiles and matches, else the '*' key
\* if there is one, else nothing.
C30_InvalidRegexSkipped ==
    (resolved # Pending /\ \E i \in 1..Len(widgets) : regexInvalid(widgets[i]))
        => /\ resolved # Thrown
           /\ resolved = Null \/ ~regexInvalid(resolved)
           /\ resolved = findWidget(WithoutKey(widgets, regexBad), viewState)
           /\ ~EarlierRule(widgets, viewState) =>
                 LET valid == {i \in 1..Len(widgets) : regexMatch(widgets[i], viewState)}
                 IN  /\ valid # {} =>
                            \E i \in valid : /\ resolved = widgets[i]
                                             /\ \A j \in valid : i <= j
                     /\ valid = {} =>
                            resolved = IF \E i \in 1..Len(widgets) : widgets[i] = star
                                       THEN star ELSE Null

\* C30 witness: the invalid key stands before a regex key that matches, and
\* that key was resolved.
C30_Witness ==
    /\ resolved # Pending /\ resolved # Null
    /\ ~EarlierRule(widgets, viewState)
    /\ regexMatch(resolved, viewState)
    /\ \E i, j \in 1..Len(widgets) :
           i < j /\ regexInvalid(widgets[i]) /\ widgets[j] = resolved

\* C31 (disposed effect unsubscribed): an effect whose disposer has been
\* called is in no cell's subscriber set, the cells created by another
\* ReactiveWidget included.
C31_DisposedIsUnsubscribed ==
    \A e \in PlainEffects :
        ~isActive[e] => \A c \in Cells : ~InSeq(e, subscriptions[c])

\* C32 (one evaluation per entry): when a scheduled render has run, autoStep
\* has called the handler of the current state at most once since the
\* machine entered the state.
C32_EvaluatedOncePerEntry ==
    task.kind = "render" => entryEvals <= 1

\* C33 (one scheduled render): at most one render is queued at any time, and
\* the flag says whether one is; a task that commits, however often, or calls
\* setState leaves exactly one render queued; the queued render is called in
\* the state committed last, and when it commits nothing itself no render is
\* queued after it.
C33_OneScheduledRender ==
    /\ [](/\ Len(microtasks) <= 1
          /\ scheduledRender = (microtasks # <<>>)
          /\ (task.commits # <<>> \/ task.kind = "setState") => microtasks = <<"render">>
          /\ (task.kind = "render" /\ task.commits = <<>>) => microtasks = <<>>)
    /\ [][task'.kind = "render" =>
             /\ microtasks = <<"render">>
             /\ task'.pre = state
             /\ task.commits # <<>> => task'.pre = task.commits[Len(task.commits)].to]_vars

\* C33 witness: a host call committed twice and asked for a render twice,
\* and one render is queued.
C33_Witness ==
    /\ task.kind = "send"
    /\ Len(task.commits) = 2
    /\ task.requested = 2
    /\ microtasks = <<"render">>

\* C34 (writes terminate): no write runs effects until the call stack is
\* exhausted, the write to a signal that an effect both reads and writes
\* included.
C34_WriteTerminates == ~overflowed

\* Whether context k was created below context c.
RECURSIVE Below(_, _)
Below(k, c) == parent(k) # NoContext /\ (parent(k) = c \/ Below(parent(k), c))

\* C35 (dispose reaches every descendant): every context created below a
\* disposed context is disposed, so that its read and provide throw.
C35_DescendantsDisposed ==
    \A c, k \in Contexts :
        (disposed[c] /\ Below(k, c))
            => /\ disposed[k]
               /\ \A ty \in Types : read(Tree, k, ty) = Throws

\* C36 (once is once): the function given to a once() call is invoked at
\* most once, whatever the publish calls.
C36_OnceAtMostOnce == \A i \in 1..MaxOnce : onceRuns[i] <= 1

\* C37 (no call after unsubscribe): a function the host subscribed is called
\* only while it is in the Set of the key it is called for.
C37_NoCallAfterUnsubscribe ==
    lastDelivery.h.kind = "plain" => lastDelivery.subscribed

\* C40 (no empty set): every key of the subscribers Map has a handler, i.e.
\* debugSnapshot reports no count of 0.
C40_NoEmptySet ==
    /\ \A k \in present : subscribers[k] # <<>>
    /\ \A k \in DOMAIN debugSnapshot(Bus) : debugSnapshot(Bus)[k] # 0

\* C40 witness: a once wrapper, delivered, took itself and with it its key
\* out of the Map, while another key stays.
C40_Witness ==
    /\ lastDelivery.h.kind = "once"
    /\ lastDelivery.subscribed
    /\ lastDelivery.h.ev \notin present
    /\ present # {}

\* C38 (function entry handler): after a send whose entry handler is a
\* function, the listeners of the state the function returned have been
\* called with its data and the state's auto-step function has run, as
\* after the send of a literal of that state.
C38_FunctionResultApplied ==
    (blocLast.ev # "none" /\ entryHandler(blocLast.ev).k = "fn")
        => LET literal == blocApplyTransition(Bloc, entryHandler(blocLast.ev).ret)
           IN  /\ blocLast.notified = literal.notified
               /\ blocLast.stepped = literal.stepped

\* C39 (the queue is never used): between tasks the pending-transition queue
\* is empty and the in-flight flag is false, and no task has found the flag
\* set on a call of applyTransition (nothing was pushed on the queue).
C39_QueueNeverUsed ==
    /\ pendingTransitions = <<>>
    /\ ~rendering
    /\ task.queued = 0

\* C39 witness: an autoStep loop committed several times, each commit asking
\* for a render inside its in-flight window, and the one render is queued.
C39_Witness ==
    /\ task.kind = "render"
    /\ Len(task.commits) >= 2
    /\ task.requested >= 2
    /\ microtasks = <<"render">>

====
